---- MODULE Spec2Model ----
(***************************************************************************)
(* Model of the RFM95 LoRa transmitter sketch (src/rfm95w/rfm95w.ino).     *)
(*                                                                         *)
(* Three specifications share the definitions below:                       *)
(*   Spec        the whole sketch: setup() (device init, the two console   *)
(*               prompts, the two register configurations) followed by     *)
(*               loop() (command check, transmit, sleep), with the console *)
(*               as a bounded queue of lines;                              *)
(*   SpecConfig  setBandwidth and setSpreadingFactor called in any order   *)
(*               with arguments inside and outside their ranges, on        *)
(*               register files that cover every 8-bit prior value of      *)
(*               each of the two modem configuration registers;            *)
(*   SpecSetup   setup() alone, with a wide choice of the integers that    *)
(*               Serial.parseInt() returns at the two prompts.             *)
(***************************************************************************)
EXTENDS Integers, Sequences, FiniteSets, TLC

VARIABLES
  pc,               \* position of the single thread of control
  regs,             \* the radio's registers 0x1D, 0x1E, 0x20, 0x21 (8 bits each)
  spiWrites,        \* the rf95.spiWrite calls issued by the latest configuration call
  lastCall,         \* the latest configuration call: its name, argument, what it
                    \* returned and what it printed
  bwCode,           \* configureParameters' local bwCode (getUserBandwidthInput's result)
  sf,               \* configureParameters' local sf (getUserSpreadingFactorInput's result)
  totalPacketCount, \* unsigned long totalPacketCount
  okSends,          \* how many times rf95.send has returned true
  isPaused,         \* bool isPaused
  switchPin,        \* level driven on SWITCH_PIN
  ledPin,           \* level driven on LED_PIN
  radioMode,        \* mode the driver was last put in (setModeIdle / send / sleep),
                    \* "InitFailed" once rf95.init() has returned false
  i,                \* waitForNextCycle's loop index
  serialBuf,        \* lines waiting in the serial receive buffer
  cycleLog,         \* what the current loop() pass has done so far, in order
  cmdStage,         \* how far the consumed lines have followed STOP, GO, STOP
  parsed            \* the long that Serial.parseInt() last returned

vars == <<pc, regs, spiWrites, lastCall, bwCode, sf, totalPacketCount, okSends,
          isPaused, switchPin, ledPin, radioMode, i, serialBuf, cycleLog, cmdStage,
          parsed>>

---------------------------------------------------------------------------
(* Bounds of the model                                                     *)

\* how far outside 0..9 and 6..12 the arguments of SpecConfig's calls reach
ArgSlack == 2
\* successful sends after which rf95.send only reports failure
MaxPackets == 2
\* lines the serial receive buffer holds
MaxBuf == 2
\* how far outside 0..12 the small integers typed at SpecSetup's prompts reach
InputSlack == 3

---------------------------------------------------------------------------
(* Program constants                                                       *)

RegModemConfig1 == 29      \* 0x1D
RegModemConfig2 == 30      \* 0x1E
RegPreambleMsb  == 32      \* 0x20
RegPreambleLsb  == 33      \* 0x21
CrcOnBit        == 4       \* 1 << 2
SleepSteps      == 12      \* for (int i = 0; i < 12; i++)

RegAddrs == {RegModemConfig1, RegModemConfig2, RegPreambleMsb, RegPreambleLsb}
Byte     == 0..255

---------------------------------------------------------------------------
(* C's bitwise operators on non-negative integers                          *)

RECURSIVE BitAnd(_, _)
BitAnd(a, b) ==
  IF a = 0 \/ b = 0 THEN 0
  ELSE (a % 2) * (b % 2) + 2 * BitAnd(a \div 2, b \div 2)

RECURSIVE BitOr(_, _)
BitOr(a, b) ==
  IF a = 0 THEN b
  ELSE IF b = 0 THEN a
  ELSE (IF a % 2 = 1 \/ b % 2 = 1 THEN 1 ELSE 0) + 2 * BitOr(a \div 2, b \div 2)

\* conversion of an int to uint8_t
ToUint8(n) == n % 256

LowNibble(v) == v % 16

---------------------------------------------------------------------------
(* setBandwidth                                                            *)

bwValues == <<0, 16, 32, 48, 64, 80, 96, 112, 128, 144>>

BwInRange(c) == c >= 0 /\ c < 10

\* the table entry, bwValues[bwCode] in C's 0-based indexing
BwBits(c) == bwValues[c + 1]

\* faulty variants: a plain write instead of read-modify-write; the code not shifted
NewModemConfig1_Overwrite(v, c) == BwBits(c)
NewModemConfig1_NoShift(v, c) == ToUint8(BitOr(BitAnd(v, 15), c))
\* modemConfig1 &= 0x0F; modemConfig1 |= bwValues[bwCode];
NewModemConfig1(v, c) == ToUint8(BitOr(BitAnd(v, 15), BwBits(c)))

\* void setBandwidth(int bwCode): nothing is returned, and nothing is printed
\* or written when bwCode fails the range test
setBandwidth(c) ==
  /\ IF BwInRange(c)
       THEN LET v == NewModemConfig1(regs[RegModemConfig1], c)
            IN /\ regs' = [regs EXCEPT ![RegModemConfig1] = v]
               /\ spiWrites' = << <<RegModemConfig1, v>> >>
               /\ lastCall' = [op |-> "setBandwidth", arg |-> c, ret |-> "void",
                               out |-> "Bandwidth set to code: "]
       ELSE /\ regs' = regs
            /\ spiWrites' = << >>
            /\ lastCall' = [op |-> "setBandwidth", arg |-> c, ret |-> "void",
                            out |-> ""]

---------------------------------------------------------------------------
(* setSpreadingFactor                                                      *)

\* faulty variant: the lower limit off by one
SfInRange_From5(s) == s >= 5 /\ s <= 12
SfInRange(s) == s >= 6 /\ s <= 12

\* faulty variant: the register overwritten instead of read, masked and merged
NewModemConfig2_Overwrite(v, s) == ToUint8(s * 16)
\* faulty variant: the factor shifted by three bits only
NewModemConfig2_Shift3(v, s) == ToUint8(BitOr(BitAnd(v, 15), s * 8))
\* faulty variant: a mask that also clears bit 2
NewModemConfig2_Mask0B(v, s) == ToUint8(BitOr(BitAnd(v, 11), s * 16))
\* modemConfig2 &= 0x0F; modemConfig2 |= (sf << 4);
NewModemConfig2(v, s) == ToUint8(BitOr(BitAnd(v, 15), s * 16))

\* void setSpreadingFactor(int sf)
setSpreadingFactor(s) ==
  /\ IF SfInRange(s)
       THEN LET v == NewModemConfig2(regs[RegModemConfig2], s)
            IN /\ regs' = [regs EXCEPT ![RegModemConfig2] = v]
               /\ spiWrites' = << <<RegModemConfig2, v>> >>
               /\ lastCall' = [op |-> "setSpreadingFactor", arg |-> s, ret |-> "void",
                               out |-> "Spreading Factor set to: "]
       ELSE /\ regs' = regs
            /\ spiWrites' = << >>
            /\ lastCall' = [op |-> "setSpreadingFactor", arg |-> s, ret |-> "void",
                            out |-> ""]

---------------------------------------------------------------------------
(* Console lines: a line is the sequence of characters before its '\n'     *)

Upper == <<"G", "O", "P", "S", "T">>
Lower == <<"g", "o", "p", "s", "t">>

\* tolower(), as String::equalsIgnoreCase applies it to each character
ToLowerChar(ch) ==
  IF \E k \in DOMAIN Upper : Upper[k] = ch
    THEN Lower[CHOOSE k \in DOMAIN Upper : Upper[k] = ch]
    ELSE ch

\* isspace(), as String::trim applies it
IsSpaceChar(ch) == ch \in {" ", "\t", "\r", "\n"}

RECURSIVE TrimLeft(_)
TrimLeft(s) ==
  IF s # << >> /\ IsSpaceChar(Head(s)) THEN TrimLeft(Tail(s)) ELSE s

RECURSIVE TrimRight(_)
TrimRight(s) ==
  IF s # << >> /\ IsSpaceChar(s[Len(s)])
    THEN TrimRight(SubSeq(s, 1, Len(s) - 1))
    ELSE s

\* faulty variant: trailing white space (a '\r') kept
Trim_LeftOnly(s) == TrimLeft(s)
\* input.trim()
Trim(s) == TrimRight(TrimLeft(s))

\* input.equalsIgnoreCase("...")
equalsIgnoreCase(a, b) ==
  /\ Len(a) = Len(b)
  /\ \A k \in 1..Len(a) : ToLowerChar(a[k]) = ToLowerChar(b[k])

StopWord == <<"S", "T", "O", "P">>
GoWord   == <<"G", "O">>

\* the lines an operator may send in this model
Lines ==
  { <<"S", "T", "O", "P">>,
    <<"G", "O">>,
    <<" ", "s", "t", "O", "p", "\r">>,
    <<"g", "o", "\r">>,
    <<"G", "O", "!">>,
    <<"S", " ", "T", "O", "P">>,
    << >> }

\* isPaused after checkForStopOrGo has read `line`
NewPaused(line, paused) ==
  LET input == Trim(line)
  IN IF equalsIgnoreCase(input, StopWord) THEN TRUE
     ELSE IF equalsIgnoreCase(input, GoWord) THEN FALSE
     ELSE paused

\* progress of the consumed lines along STOP, GO, STOP ("off" once they depart)
NextStage(stage, line) ==
  LET input == Trim(line)
      cmd == IF equalsIgnoreCase(input, StopWord) THEN "STOP"
             ELSE IF equalsIgnoreCase(input, GoWord) THEN "GO"
             ELSE "OTHER"
  IN IF stage = "0" /\ cmd = "STOP" THEN "1"
     ELSE IF stage = "1" /\ cmd = "GO" THEN "2"
     ELSE IF stage = "2" /\ cmd = "STOP" THEN "3"
     ELSE "off"

---------------------------------------------------------------------------
(* State of the sketch                                                     *)

\* values the two modem configuration registers may hold when setup() starts
ResetVals == {0, 251}

\* integers Serial.parseInt() may return at the two prompts
BwInputs == {-1, 0, 9, 10}
SfInputs == {5, 6, 12, 13}

NoCall == [op |-> "none", arg |-> 0, ret |-> "void", out |-> ""]

\* globals and pins as they are when setup() is entered
InitCommon ==
  /\ spiWrites = << >>
  /\ lastCall = NoCall
  /\ bwCode = -1
  /\ sf = -1
  /\ totalPacketCount = 0
  /\ okSends = 0
  /\ isPaused = FALSE
  /\ switchPin = "FLOAT"
  /\ ledPin = "FLOAT"
  /\ radioMode = "Unknown"
  /\ i = 0
  /\ serialBuf = << >>
  /\ cycleLog = << >>
  /\ cmdStage = "0"
  /\ parsed = 0

Init ==
  /\ pc = "setup"
  /\ \E v \in ResetVals : regs = [a \in RegAddrs |-> v]
  /\ InitCommon

\* the position in loop() as the radio state of the design
RadioState ==
  IF pc \in {"send", "blink", "wait"} THEN "Transmitting"
  ELSE IF pc = "powerdown" THEN "Sleeping"
  ELSE "Idle"

---------------------------------------------------------------------------
(* setup()                                                                 *)

\* faulty variant: the two preamble writes missing
RegsAfterInit_NoPreamble(r) ==
  [r EXCEPT ![RegModemConfig2] = ToUint8(BitOr(r[RegModemConfig2], CrcOnBit))]
\* registers after initializeRF95Module's writes (rf95.init() has succeeded)
RegsAfterInit(r) ==
  [r EXCEPT ![RegPreambleMsb] = 0,
            ![RegPreambleLsb] = 8,
            ![RegModemConfig2] = ToUint8(BitOr(r[RegModemConfig2], CrcOnBit))]

\* faulty variant: the while (1) missing, so that setup() goes on
InitFailedPc_GoesOn == "bw_input"
\* if (!rf95.init()) { ...; while (1); }
InitFailedPc == "halted"

\* initializeSystem: initializeRF95Module, initializeLED, initializeSwitch.
\* rf95.init() reports ok; when it fails the sketch spins in while (1).
InitializeSystem ==
  /\ pc = "setup"
  /\ \E ok \in BOOLEAN :
       IF ok
         THEN /\ regs' = RegsAfterInit(regs)
              /\ radioMode' = "Idle"
              /\ ledPin' = "LOW"
              /\ switchPin' = "LOW"
              /\ pc' = "bw_input"
         ELSE /\ pc' = InitFailedPc
              /\ radioMode' = "InitFailed"
              /\ UNCHANGED <<regs, ledPin, switchPin>>
  /\ UNCHANGED <<spiWrites, lastCall, bwCode, sf, totalPacketCount, okSends,
                 isPaused, i, serialBuf, cycleLog, cmdStage, parsed>>

\* while (1);
Halted ==
  /\ pc = "halted"
  /\ UNCHANGED vars

\* bwCode = Serial.parseInt(): the long is converted to a 16-bit int (the
\* sketch builds for AVR, whose LowPower.powerDown it calls)
ToInt16(n) ==
  LET m == n % 65536
  IN IF m >= 32768 THEN m - 65536 ELSE m

\* faulty variant: 10 accepted
BwAccepted_UpTo10(n) == n >= 0 /\ n <= 10
\* if (bwCode >= 0 && bwCode <= 9)
BwAccepted(n) == n >= 0 /\ n <= 9

\* one pass of getUserBandwidthInput's loop with Serial.available() true:
\* parseInt returns a value of `inputs`; when the int it becomes is out of range
\* bwCode is reset to -1 and the loop goes on
BandwidthPrompt(inputs) ==
  /\ pc = "bw_input"
  /\ \E n \in inputs :
       /\ parsed' = n
       /\ IF BwAccepted(ToInt16(n))
            THEN bwCode' = ToInt16(n) /\ pc' = "set_bw"
            ELSE bwCode' = -1 /\ pc' = "bw_input"
  /\ UNCHANGED <<regs, spiWrites, lastCall, sf, totalPacketCount, okSends, isPaused,
                 switchPin, ledPin, radioMode, i, serialBuf, cycleLog, cmdStage>>

GetUserBandwidthInput == BandwidthPrompt(BwInputs)

\* configureParameters: setBandwidth(bwCode)
ConfigureBandwidth ==
  /\ pc = "set_bw"
  /\ setBandwidth(bwCode)
  /\ pc' = "sf_input"
  /\ UNCHANGED <<bwCode, sf, totalPacketCount, okSends, isPaused, switchPin, ledPin,
                 radioMode, i, serialBuf, cycleLog, cmdStage, parsed>>

\* if (sf >= 6 && sf <= 12)
SfAccepted(n) == n >= 6 /\ n <= 12

\* one pass of getUserSpreadingFactorInput's loop with Serial.available() true
SpreadingFactorPrompt(inputs) ==
  /\ pc = "sf_input"
  /\ \E n \in inputs :
       /\ parsed' = n
       /\ IF SfAccepted(ToInt16(n))
            THEN sf' = ToInt16(n) /\ pc' = "set_sf"
            ELSE sf' = -1 /\ pc' = "sf_input"
  /\ UNCHANGED <<regs, spiWrites, lastCall, bwCode, totalPacketCount, okSends,
                 isPaused, switchPin, ledPin, radioMode, i, serialBuf, cycleLog,
                 cmdStage>>

GetUserSpreadingFactorInput == SpreadingFactorPrompt(SfInputs)

\* configureParameters: setSpreadingFactor(sf); setup() returns and loop() starts
ConfigureSpreadingFactor ==
  /\ pc = "set_sf"
  /\ setSpreadingFactor(sf)
  /\ pc' = "check"
  /\ UNCHANGED <<bwCode, sf, totalPacketCount, okSends, isPaused, switchPin, ledPin,
                 radioMode, i, serialBuf, cycleLog, cmdStage, parsed>>

---------------------------------------------------------------------------
(* loop()                                                                  *)

LoopPcs == {"check", "branch", "prepare", "send", "blink", "wait", "powerdown"}

\* a line typed by the operator reaches the serial receive buffer
ConsoleArriveFrom(lines) ==
  /\ pc \in LoopPcs
  /\ Len(serialBuf) < MaxBuf
  /\ \E line \in lines : serialBuf' = Append(serialBuf, line)
  /\ UNCHANGED <<pc, regs, spiWrites, lastCall, bwCode, sf, totalPacketCount,
                 okSends, isPaused, switchPin, ledPin, radioMode, i, cycleLog,
                 cmdStage, parsed>>

ConsoleArrive == ConsoleArriveFrom(Lines)

\* faulty variant: every pending line taken off the buffer by one check
BufAfterRead_Flush(buf) == << >>
\* Serial.readStringUntil('\n') takes one line off the receive buffer
BufAfterRead(buf) == Tail(buf)

\* checkForStopOrGo, the first statement of loop()
CheckForStopOrGo ==
  /\ pc = "check"
  /\ IF serialBuf # << >>
       THEN /\ isPaused' = NewPaused(Head(serialBuf), isPaused)
            /\ cmdStage' = NextStage(cmdStage, Head(serialBuf))
            /\ serialBuf' = BufAfterRead(serialBuf)
       ELSE UNCHANGED <<isPaused, cmdStage, serialBuf>>
  /\ cycleLog' = <<"check">>
  /\ pc' = "branch"
  /\ UNCHANGED <<regs, spiWrites, lastCall, bwCode, sf, totalPacketCount, okSends,
                 switchPin, ledPin, radioMode, i, parsed>>

\* faulty variants: isPaused not consulted; the send skipped; the test inverted
LoopBranchTarget_Inverted(paused) == IF paused THEN "prepare" ELSE "check"
LoopBranchTarget_Always(paused) == "prepare"
LoopBranchTarget_SkipSend(paused) == IF ~paused THEN "wait" ELSE "check"
\* if (!isPaused) { prepareTransmission(); ... } and otherwise loop() returns
LoopBranchTarget(paused) == IF ~paused THEN "prepare" ELSE "check"

\* the if of loop(): into the transmit/sleep sequence, or loop() returns
LoopBranch ==
  /\ pc = "branch"
  /\ pc' = LoopBranchTarget(isPaused)
  /\ UNCHANGED <<regs, spiWrites, lastCall, bwCode, sf, totalPacketCount, okSends,
                 isPaused, switchPin, ledPin, radioMode, i, serialBuf, cycleLog,
                 cmdStage, parsed>>

\* faulty variant: the settle delay taken before the switch is energised
PrepareEvents_SwitchLast == <<"setModeIdle", "settle", "switchOn">>
\* the statements of prepareTransmission in their order:
\* rf95.setModeIdle(); digitalWrite(SWITCH_PIN, HIGH); delay(1000);
PrepareEvents == <<"setModeIdle", "switchOn", "settle">>

\* prepareTransmission: setModeIdle, switch on, delay(1000)
PrepareTransmission ==
  /\ pc = "prepare"
  /\ radioMode' = "Idle"
  /\ switchPin' = "HIGH"
  /\ cycleLog' = cycleLog \o PrepareEvents
  /\ pc' = "send"
  /\ UNCHANGED <<regs, spiWrites, lastCall, bwCode, sf, totalPacketCount, okSends,
                 isPaused, ledPin, i, serialBuf, cmdStage, parsed>>

\* faulty variant: a failed send tried again at once
AfterFailedSend_Retry == "send"
\* sendMessage's else branch only prints; waitForNextCycle comes next
AfterFailedSend == "wait"

\* sendMessage up to the delay inside blinkLED: rf95.send reports ok
SendMessage ==
  /\ pc = "send"
  /\ \E ok \in BOOLEAN :
       /\ ok => totalPacketCount < MaxPackets
       /\ IF ok
            THEN /\ okSends' = okSends + 1
                 /\ ledPin' = "HIGH"
                 /\ pc' = "blink"
            ELSE /\ UNCHANGED <<okSends, ledPin>>
                 /\ pc' = AfterFailedSend
       /\ cycleLog' = Append(cycleLog, IF ok THEN "sendOk" ELSE "sendFailed")
  /\ radioMode' = "Tx"
  /\ UNCHANGED <<regs, spiWrites, lastCall, bwCode, sf, totalPacketCount, isPaused,
                 switchPin, i, serialBuf, cmdStage, parsed>>

\* faulty variant: counted twice
CountAfterSend_Twice(n) == n + 2
\* totalPacketCount++ (an unsigned long: it wraps at 2^32, which lies beyond
\* MaxPackets and beyond the integers TLC represents)
CountAfterSend(n) == n + 1

\* faulty variant: the LED left on after the pulse
LedAfterBlink_StaysOn == "HIGH"
\* digitalWrite(LED_PIN, LOW) at the end of blinkLED
LedAfterBlink == "LOW"

\* the rest of sendMessage's success branch: LED off, totalPacketCount++
BlinkDone ==
  /\ pc = "blink"
  /\ ledPin' = LedAfterBlink
  /\ totalPacketCount' = CountAfterSend(totalPacketCount)
  /\ pc' = "wait"
  /\ UNCHANGED <<regs, spiWrites, lastCall, bwCode, sf, okSends, isPaused, switchPin,
                 radioMode, i, serialBuf, cycleLog, cmdStage, parsed>>

\* faulty variant: the switch left on
SwitchAfterSleep_StaysOn == "HIGH"
\* digitalWrite(SWITCH_PIN, LOW) in waitForNextCycle
SwitchAfterSleep == "LOW"

\* waitForNextCycle up to its for loop: rf95.sleep, switch off, LED off
WaitForNextCycle ==
  /\ pc = "wait"
  /\ radioMode' = "Sleep"
  /\ switchPin' = SwitchAfterSleep
  /\ ledPin' = "LOW"
  /\ i' = 0
  /\ cycleLog' = Append(cycleLog, "sleep")
  /\ pc' = "powerdown"
  /\ UNCHANGED <<regs, spiWrites, lastCall, bwCode, sf, totalPacketCount, okSends,
                 isPaused, serialBuf, cmdStage, parsed>>

\* faulty variant: one power-down step short
SleepGoesOn_11(k) == k < 11
\* the for loop's condition, i < 12
SleepGoesOn(k) == k < SleepSteps

\* one LowPower.powerDown(SLEEP_250MS, ...) and the i++ after it
PowerDownStep ==
  /\ pc = "powerdown"
  /\ SleepGoesOn(i)
  /\ i' = i + 1
  /\ UNCHANGED <<pc, regs, spiWrites, lastCall, bwCode, sf, totalPacketCount,
                 okSends, isPaused, switchPin, ledPin, radioMode, serialBuf,
                 cycleLog, cmdStage, parsed>>

\* the for loop ends; waitForNextCycle and loop() return
LoopReturn ==
  /\ pc = "powerdown"
  /\ ~SleepGoesOn(i)
  /\ pc' = "check"
  /\ UNCHANGED <<regs, spiWrites, lastCall, bwCode, sf, totalPacketCount, okSends,
                 isPaused, switchPin, ledPin, radioMode, i, serialBuf, cycleLog,
                 cmdStage, parsed>>

Next ==
  \/ InitializeSystem
  \/ Halted
  \/ GetUserBandwidthInput
  \/ ConfigureBandwidth
  \/ GetUserSpreadingFactorInput
  \/ ConfigureSpreadingFactor
  \/ ConsoleArrive
  \/ CheckForStopOrGo
  \/ LoopBranch
  \/ PrepareTransmission
  \/ SendMessage
  \/ BlinkDone
  \/ WaitForNextCycle
  \/ PowerDownStep
  \/ LoopReturn

Spec == Init /\ [][Next]_vars

---------------------------------------------------------------------------
(* SpecConfig: the two configuration calls on their own                    *)

\* a few values for the register a call is not about
OtherVals == {165}

BwArgs == (0 - ArgSlack)..(9 + ArgSlack)
SfArgs == (6 - ArgSlack)..(12 + ArgSlack)

InitConfig ==
  /\ pc = "config"
  /\ \E v \in Byte, w \in OtherVals :
       \/ regs = [a \in RegAddrs |->
                    IF a = RegModemConfig1 THEN v
                    ELSE IF a = RegModemConfig2 THEN w
                    ELSE IF a = RegPreambleLsb THEN 8 ELSE 0]
       \/ regs = [a \in RegAddrs |->
                    IF a = RegModemConfig1 THEN w
                    ELSE IF a = RegModemConfig2 THEN v
                    ELSE IF a = RegPreambleLsb THEN 8 ELSE 0]
  /\ InitCommon

CallSetBandwidth ==
  /\ pc = "config"
  /\ \E c \in BwArgs : setBandwidth(c)
  /\ UNCHANGED <<pc, bwCode, sf, totalPacketCount, okSends, isPaused, switchPin,
                 ledPin, radioMode, i, serialBuf, cycleLog, cmdStage, parsed>>

CallSetSpreadingFactor ==
  /\ pc = "config"
  /\ \E s \in SfArgs : setSpreadingFactor(s)
  /\ UNCHANGED <<pc, bwCode, sf, totalPacketCount, okSends, isPaused, switchPin,
                 ledPin, radioMode, i, serialBuf, cycleLog, cmdStage, parsed>>

NextConfig ==
  \/ CallSetBandwidth
  \/ CallSetSpreadingFactor

SpecConfig == InitConfig /\ [][NextConfig]_vars

---------------------------------------------------------------------------
(* SpecSetup: setup() alone, with a wide choice of integers at the prompts *)

\* what Serial.parseInt() may return: small integers around the two ranges,
\* and longs that do not fit the 16-bit int they are assigned to
WideInputs ==
  ((0 - InputSlack)..(12 + InputSlack)) \cup {65541, 65548, 65549, -65527}

WideBandwidthPrompt == BandwidthPrompt(WideInputs)
WideSpreadingFactorPrompt == SpreadingFactorPrompt(WideInputs)

NextSetup ==
  \/ InitializeSystem
  \/ Halted
  \/ WideBandwidthPrompt
  \/ ConfigureBandwidth
  \/ WideSpreadingFactorPrompt
  \/ ConfigureSpreadingFactor

SpecSetup == Init /\ [][NextSetup]_vars

---------------------------------------------------------------------------
(* Claims about the configuration calls, checked under SpecConfig.  Every  *)
(* step of SpecConfig that changes the state is one call, and lastCall'    *)
(* names it.                                                               *)

BwCallStep == pc = "config" /\ lastCall'.op = "setBandwidth"
SfCallStep == pc = "config" /\ lastCall'.op = "setSpreadingFactor"

\* C1: for every code c in 0..9 and every prior value of register 0x1D,
\* setBandwidth(c) leaves the low nibble of 0x1D as it was, leaves every other
\* register as it was, and issues no write to any other register.
C1_BandwidthKeepsLowNibble ==
  [][ (BwCallStep /\ lastCall'.arg \in 0..9) =>
        /\ LowNibble(regs'[RegModemConfig1]) = LowNibble(regs[RegModemConfig1])
        /\ \A a \in RegAddrs \ {RegModemConfig1} : regs'[a] = regs[a]
        /\ \A k \in DOMAIN spiWrites' : spiWrites'[k][1] = RegModemConfig1 ]_vars

\* setBandwidth(5) has run on a register whose low nibble was 0xF: 0x5F
C1_Witness ==
  /\ lastCall.op = "setBandwidth" /\ lastCall.arg = 5
  /\ regs[RegModemConfig1] = 95
  /\ spiWrites = << <<RegModemConfig1, 95>> >>

\* C2: for every sf in 6..12 and every prior value of register 0x1E,
\* setSpreadingFactor(sf) leaves the low nibble of 0x1E (the CRC-enable bit, bit 2,
\* included) as it was, leaves every other register as it was, and issues no
\* write to any other register.
C2_SpreadingFactorKeepsLowNibble ==
  [][ (SfCallStep /\ lastCall'.arg \in 6..12) =>
        /\ LowNibble(regs'[RegModemConfig2]) = LowNibble(regs[RegModemConfig2])
        /\ (regs'[RegModemConfig2] \div 4) % 2 = (regs[RegModemConfig2] \div 4) % 2
        /\ \A a \in RegAddrs \ {RegModemConfig2} : regs'[a] = regs[a]
        /\ \A k \in DOMAIN spiWrites' : spiWrites'[k][1] = RegModemConfig2 ]_vars

\* setSpreadingFactor(12) has run on a register whose low nibble was 0x4 (CRC on): 0xC4
C2_Witness ==
  /\ lastCall.op = "setSpreadingFactor" /\ lastCall.arg = 12
  /\ regs[RegModemConfig2] = 196
  /\ spiWrites = << <<RegModemConfig2, 196>> >>

C4_BandwidthValue ==
  [][ (BwCallStep /\ lastCall'.arg \in 0..9) =>
        LET v == regs[RegModemConfig1]
            c == lastCall'.arg
            expected == (v % 16) + c * 16
        IN /\ regs'[RegModemConfig1] = expected
           /\ spiWrites' = << <<RegModemConfig1, expected>> >>
           /\ c = 5 => (regs'[RegModemConfig1] \div 16) * 16 = 80 ]_vars

\* setBandwidth(5) has run on a register whose low nibble was 0xA: 0x5A
C4_Witness ==
  /\ lastCall.op = "setBandwidth" /\ lastCall.arg = 5
  /\ regs[RegModemConfig1] = 90
  /\ (regs[RegModemConfig1] \div 16) * 16 = 80

---------------------------------------------------------------------------
(* Claims about setup() and loop(), checked under Spec                     *)

FullCycleOk     == <<"check", "setModeIdle", "switchOn", "settle", "sendOk", "sleep">>
FullCycleFailed == <<"check", "setModeIdle", "switchOn", "settle", "sendFailed", "sleep">>
PausedCycle     == <<"check">>

\* C5: totalPacketCount equals the number of sends that reported success (less
\* the one whose sendMessage is still blinking the LED); a step changes it only
\* by adding exactly 1, and only at the end of a successful sendMessage; a send
\* that reports failure leaves it as it was; it never decreases.
C5_CounterFollowsSuccessfulSends ==
  /\ [](totalPacketCount = okSends - (IF pc = "blink" THEN 1 ELSE 0))
  /\ [][ /\ totalPacketCount' >= totalPacketCount
         /\ totalPacketCount' # totalPacketCount =>
              /\ pc = "blink"
              /\ cycleLog[Len(cycleLog)] = "sendOk"
              /\ totalPacketCount' = totalPacketCount + 1
         /\ (pc = "blink" /\ pc' # pc) => totalPacketCount' = totalPacketCount + 1
         /\ (pc = "send" /\ pc' = "wait") =>
              /\ okSends' = okSends
              /\ totalPacketCount' = totalPacketCount ]_vars

\* two sends succeeded, then one failed and its cycle has ended: the count is 2
C5_Witness ==
  /\ pc = "check"
  /\ cycleLog = FullCycleFailed
  /\ okSends = 2
  /\ totalPacketCount = 2

\* C6: the radio state changes only Idle -> Transmitting (by prepareTransmission,
\* in a cycle that is not paused), Transmitting -> Sleeping (by waitForNextCycle,
\* after a send that succeeded or failed) and Sleeping -> Idle (with exactly 12
\* power-down steps done since Sleeping was entered); and an unpaused cycle
\* takes each of these steps in turn.
C6_RadioStateMachine ==
  [][ /\ RadioState' # RadioState =>
           \/ /\ RadioState = "Idle" /\ RadioState' = "Transmitting"
              /\ pc = "prepare" /\ ~isPaused
           \/ /\ RadioState = "Transmitting" /\ RadioState' = "Sleeping"
              /\ pc = "wait" /\ i' = 0
              /\ cycleLog[Len(cycleLog)] \in {"sendOk", "sendFailed"}
           \/ /\ RadioState = "Sleeping" /\ RadioState' = "Idle"
              /\ i = 12
      /\ (RadioState = "Sleeping" /\ RadioState' = "Sleeping") => i' \in {i, i + 1}
      /\ (pc = "branch" /\ ~isPaused /\ pc' # pc) => pc' = "prepare"
      /\ (pc = "prepare" /\ pc' # pc) => RadioState' = "Transmitting"
      /\ (pc \in {"send", "blink"} /\ pc' # pc) => RadioState' = "Transmitting"
      /\ (pc = "wait" /\ pc' # pc) => RadioState' = "Sleeping" ]_vars

\* a cycle whose send failed has gone through Transmitting and Sleeping and is
\* back in Idle after its 12 power-down steps
C6_Witness ==
  /\ RadioState = "Idle"
  /\ pc = "check"
  /\ cycleLog = FullCycleFailed
  /\ i = 12
  /\ totalPacketCount = 0

\* C7: once initializeSwitch has run, the load switch is HIGH exactly when the
\* radio state is Transmitting, and LOW otherwise.
C7_SwitchFollowsRadioState ==
  pc \notin {"setup", "halted", "config"} =>
    /\ switchPin \in {"LOW", "HIGH"}
    /\ switchPin = "HIGH" <=> RadioState = "Transmitting"

\* asleep with the switch off after a transmission that had it on
C7_Witness ==
  /\ pc = "powerdown"
  /\ i = 5
  /\ RadioState = "Sleeping"
  /\ switchPin = "LOW"
  /\ cycleLog = FullCycleOk

\* what the design says of a line: STOP or GO in any letter case, with white
\* space before and after it and nothing else
SaysStop(l) ==
  \E lo \in 1..Len(l) :
    /\ lo + 3 <= Len(l)
    /\ l[lo] \in {"S", "s"} /\ l[lo + 1] \in {"T", "t"}
    /\ l[lo + 2] \in {"O", "o"} /\ l[lo + 3] \in {"P", "p"}
    /\ \A k \in 1..Len(l) : (k < lo \/ k > lo + 3) => l[k] \in {" ", "\t", "\r", "\n"}

SaysGo(l) ==
  \E lo \in 1..Len(l) :
    /\ lo + 1 <= Len(l)
    /\ l[lo] \in {"G", "g"} /\ l[lo + 1] \in {"O", "o"}
    /\ \A k \in 1..Len(l) : (k < lo \/ k > lo + 1) => l[k] \in {" ", "\t", "\r", "\n"}

\* C8: a command check that finds a line consumes exactly that line, and leaves
\* isPaused true if the line says STOP, false if it says GO, unchanged otherwise;
\* a check that finds no line changes nothing; and while the lines consumed so
\* far are STOP, then GO, then STOP, isPaused is true, then false, then true.
C8_PauseFlagFollowsCommands ==
  /\ [][ (pc = "check" /\ pc' = "branch") =>
           IF serialBuf = << >>
             THEN isPaused' = isPaused /\ serialBuf' = serialBuf
             ELSE /\ serialBuf' = Tail(serialBuf)
                  /\ isPaused' = IF SaysStop(Head(serialBuf)) THEN TRUE
                                 ELSE IF SaysGo(Head(serialBuf)) THEN FALSE
                                 ELSE isPaused ]_vars
  /\ []( /\ cmdStage = "1" => isPaused
         /\ cmdStage = "2" => ~isPaused
         /\ cmdStage = "3" => isPaused )

\* STOP, GO, STOP have been consumed, one per check, and the node is paused at
\* a cycle boundary
C8_Witness ==
  /\ cmdStage = "3"
  /\ pc = "check"
  /\ isPaused

SendEvents == {"sendOk", "sendFailed"}

\* C9: whatever a loop() pass does comes after its command check; a sleep
\* interval starts only after a send attempt of the same pass; and when the next
\* command check is due, a pass that sent has also slept its 12 power-down steps.
C9_CycleOrder ==
  /\ pc \in LoopPcs \ {"check"} => (cycleLog # << >> /\ cycleLog[1] = "check")
  /\ \A k \in DOMAIN cycleLog :
       /\ cycleLog[k] # "check" => \E j \in 1..(k - 1) : cycleLog[j] = "check"
       /\ cycleLog[k] = "sleep" => \E j \in 1..(k - 1) : cycleLog[j] \in SendEvents
       /\ cycleLog[k] \in SendEvents =>
            /\ k > 3
            /\ <<cycleLog[k - 3], cycleLog[k - 2], cycleLog[k - 1]>> =
                 <<"setModeIdle", "switchOn", "settle">>
  /\ pc \in {"blink", "wait"} => cycleLog[Len(cycleLog)] \in SendEvents
  /\ pc = "powerdown" => cycleLog[Len(cycleLog)] = "sleep"
  /\ (pc = "check" /\ \E k \in DOMAIN cycleLog : cycleLog[k] \in SendEvents) =>
       /\ cycleLog[Len(cycleLog)] = "sleep"
       /\ i = 12

\* a pass has checked, sent and slept, and the next command check is due
C9_Witness ==
  /\ pc = "check"
  /\ cycleLog = FullCycleOk
  /\ i = 12
  /\ radioMode = "Sleep"

\* C10: while isPaused is true the sketch is at the command check or at the if
\* of loop(), with the load switch and the LED LOW; a pass that finds isPaused
\* true after its command check returns having prepared, sent and slept nothing
\* and having left the switch, the radio and totalPacketCount alone; isPaused
\* goes from true to false only by a command check that reads a GO line; and
\* prepareTransmission is entered only with isPaused false.
C10_PausedCycleDoesNothing ==
  /\ [](isPaused =>
          /\ pc \in {"check", "branch"}
          /\ switchPin = "LOW"
          /\ ledPin = "LOW")
  /\ [][ /\ (pc = "branch" /\ isPaused /\ pc' # pc) =>
              /\ pc' = "check"
              /\ cycleLog' = PausedCycle
              /\ UNCHANGED <<switchPin, ledPin, radioMode, totalPacketCount,
                             okSends, i, regs>>
         /\ (isPaused /\ ~isPaused') =>
              /\ pc = "check"
              /\ serialBuf # << >>
              /\ SaysGo(Head(serialBuf))
         /\ (pc' \in {"prepare", "send", "wait"} /\ pc' # pc) => ~isPaused ]_vars

\* after one packet was sent, a pass found the node paused and returned
C10_Witness ==
  /\ pc = "check"
  /\ isPaused
  /\ cycleLog = PausedCycle
  /\ totalPacketCount = 1
  /\ switchPin = "LOW"


\* C11: once rf95.init() has reported failure the sketch is in its while (1)
\* for ever: no step changes anything from then on, the registers hold what
\* they held before initialization, no configuration input was read, no
\* configuration call was made, the load switch is not HIGH and nothing was sent.
C11_InitFailureHalts ==
  /\ [](radioMode = "InitFailed" =>
          /\ pc = "halted"
          /\ \E v \in ResetVals : regs = [a \in RegAddrs |-> v]
          /\ spiWrites = << >> /\ lastCall = NoCall
          /\ bwCode = -1 /\ sf = -1
          /\ switchPin # "HIGH"
          /\ okSends = 0 /\ totalPacketCount = 0 /\ cycleLog = << >>)
  /\ [][ /\ radioMode = "InitFailed" => UNCHANGED vars
         /\ radioMode' = "InitFailed" => regs' = regs ]_vars

\* rf95.init() has failed and the sketch spins
C11_Witness ==
  /\ radioMode = "InitFailed"
  /\ pc = "halted"
  /\ regs[RegPreambleLsb] = 251


\* C12 as stated: at each prompt a value read in range (0..9, 6..12) is returned
\* as it was read and a value read out of range is rejected and the prompt
\* repeats, so that what is returned is the first in-range value read; and
\* setBandwidth and setSpreadingFactor are called with in-range arguments only.
C12_FirstInRangeValueIsReturned ==
  /\ [][ /\ (pc = "bw_input" /\ parsed' \in 0..9) =>
              (pc' = "set_bw" /\ bwCode' = parsed')
         /\ (pc = "bw_input" /\ parsed' \notin 0..9) =>
              (pc' = "bw_input" /\ bwCode' = -1)
         /\ (pc = "sf_input" /\ parsed' \in 6..12) =>
              (pc' = "set_sf" /\ sf' = parsed')
         /\ (pc = "sf_input" /\ parsed' \notin 6..12) =>
              (pc' = "sf_input" /\ sf' = -1) ]_vars
  /\ []( /\ lastCall.op = "setBandwidth" => lastCall.arg \in 0..9
         /\ lastCall.op = "setSpreadingFactor" => lastCall.arg \in 6..12 )


SendsIn(log) == {k \in DOMAIN log : log[k] \in SendEvents}

\* C13: a loop() pass makes at most one send attempt, and exactly one once it
\* has passed sendMessage; a send attempt is made only by a pass that has done
\* its command check and has not sent yet; a failed send goes straight on to
\* waitForNextCycle; and the next command check comes only after the pass that
\* sent has slept its 12 power-down steps.
C13_OneSendPerCycle ==
  /\ [](Cardinality(SendsIn(cycleLog)) <= 1)
  /\ [](pc \in {"blink", "wait", "powerdown"} => Cardinality(SendsIn(cycleLog)) = 1)
  /\ [][ /\ (pc = "send" /\ pc' # pc) =>
              /\ cycleLog = <<"check", "setModeIdle", "switchOn", "settle">>
              /\ Cardinality(SendsIn(cycleLog')) = 1
              /\ pc' \in {"blink", "wait"}
              /\ cycleLog'[Len(cycleLog')] = "sendFailed" => pc' = "wait"
         /\ (pc' = "send" /\ pc # "send") => pc = "prepare"
         /\ (pc = "powerdown" /\ pc' # pc) => (pc' = "check" /\ i = 12)
         /\ (pc = "check" /\ pc' # pc /\ SendsIn(cycleLog) # {}) =>
              /\ cycleLog \in {FullCycleOk, FullCycleFailed}
              /\ i = 12
              /\ cycleLog' = <<"check">> ]_vars

\* a send failed and the pass went on to sleep its 12 steps without another send
C13_Witness ==
  /\ pc = "powerdown"
  /\ i = 12
  /\ cycleLog = FullCycleFailed


SequencePcs == {"prepare", "send", "blink", "wait", "powerdown"}

\* C14: outside checkForStopOrGo no step takes a line off the receive buffer or
\* changes isPaused (lines may only arrive); once prepareTransmission is due
\* the pass goes prepare, send, (blink,) wait and 12 power-down steps before
\* control is back at the command check; and one command check takes at most
\* one line, the oldest, off the buffer.
C14_NoCommandSeenMidCycle ==
  [][ /\ pc # "check" =>
           /\ isPaused' = isPaused
           /\ cmdStage' = cmdStage
           /\ \/ serialBuf' = serialBuf
              \/ \E line \in Lines : serialBuf' = Append(serialBuf, line)
      /\ (pc \in SequencePcs /\ pc' # pc) =>
           \/ pc = "prepare" /\ pc' = "send"
           \/ pc = "send" /\ pc' \in {"blink", "wait"}
           \/ pc = "blink" /\ pc' = "wait"
           \/ pc = "wait" /\ pc' = "powerdown" /\ i' = 0
           \/ pc = "powerdown" /\ pc' = "check" /\ i = 12
      /\ (pc = "powerdown" /\ pc' = pc /\ i' # i) => (i' = i + 1 /\ i' <= 12)
      /\ (pc = "check" /\ pc' # pc) =>
           \/ serialBuf = << >> /\ serialBuf' = << >> /\ isPaused' = isPaused
           \/ serialBuf # << >> /\ serialBuf' = Tail(serialBuf) ]_vars

\* two lines, STOP first, are pending at the end of the sleep of an unpaused
\* pass, and the node is still unpaused
C14_Witness ==
  /\ pc = "powerdown"
  /\ i = 12
  /\ Len(serialBuf) = 2
  /\ equalsIgnoreCase(Trim(serialBuf[1]), StopWord)
  /\ ~isPaused


\* ---------------------------------------------------------------------------
\* Progress of the sketch.  The Arduino core calls loop() again whenever it
\* returns, and every statement of loop() returns after a bounded time (the
\* delays and the 12 power-down periods are finite, RadioHead's send and
\* waitPacketSent return), so a step of the running sketch that is due is
\* eventually taken.  Console input is under no such obligation.
SketchStep ==
  \/ CheckForStopOrGo
  \/ LoopBranch
  \/ PrepareTransmission
  \/ SendMessage
  \/ BlinkDone
  \/ WaitForNextCycle
  \/ PowerDownStep
  \/ LoopReturn

\* for progress it matters only whether a line pauses, resumes or does neither
LiveLines ==
  { <<" ", "s", "t", "O", "p", "\r">>,
    <<"g", "o", "\r">>,
    <<"G", "O", "!">> }

LiveConsoleArrive == ConsoleArriveFrom(LiveLines)

NextLive ==
  \/ InitializeSystem
  \/ Halted
  \/ GetUserBandwidthInput
  \/ ConfigureBandwidth
  \/ GetUserSpreadingFactorInput
  \/ ConfigureSpreadingFactor
  \/ LiveConsoleArrive
  \/ SketchStep

SpecLive == Init /\ [][NextLive]_vars /\ WF_vars(SketchStep)

SendAttempted ==
  /\ pc \in {"blink", "wait"}
  /\ SendsIn(cycleLog) # {}

\* C15: if from some point on the sketch is in loop() with isPaused false, a
\* send attempt is made again and again; and whenever a command check leaves
\* isPaused false (as the check that consumes GO while paused does), a send
\* attempt follows.
C15_TransmitsPeriodically ==
  /\ (<>[](pc \in LoopPcs /\ ~isPaused)) => []<>SendAttempted
  /\ (pc = "branch" /\ ~isPaused) ~> SendAttempted

\* a send attempt made after STOP and then GO were consumed
C15_Witness ==
  /\ SendAttempted
  /\ cmdStage = "2"
  /\ ~isPaused


\* C16: for every sf in 6..12 and every prior value v of register 0x1E, after
\* setSpreadingFactor(sf) the register holds (v AND 0x0F) OR (sf << 4): its
\* high nibble reads back as sf, its low nibble is that of v, and that byte is
\* the one written over SPI.
C16_SpreadingFactorValue ==
  [][ (SfCallStep /\ lastCall'.arg \in 6..12) =>
        /\ regs'[RegModemConfig2] =
             (regs[RegModemConfig2] % 16) + 16 * lastCall'.arg
        /\ regs'[RegModemConfig2] \div 16 = lastCall'.arg
        /\ spiWrites' = << <<RegModemConfig2, regs'[RegModemConfig2]>> >> ]_vars

\* setSpreadingFactor(7) has run on a register whose low nibble was 0xA: 0x7A
C16_Witness ==
  /\ lastCall.op = "setSpreadingFactor" /\ lastCall.arg = 7
  /\ regs[RegModemConfig2] = 122
  /\ spiWrites = << <<RegModemConfig2, 122>> >>


\* C17: whenever sendMessage hands the payload to the radio, this pass has,
\* since its command check, done setModeIdle, then energised the switch, then
\* taken the settle delay, in that order and nothing else; the radio is in
\* idle mode and the switch is on at that moment; and every send event in a
\* pass's log has those three events right before it.
C17_SendIsPrepared ==
  /\ [][ (pc = "send" /\ pc' # pc) =>
           /\ cycleLog = <<"check", "setModeIdle", "switchOn", "settle">>
           /\ radioMode = "Idle"
           /\ switchPin = "HIGH"
           /\ switchPin' = "HIGH" ]_vars
  /\ [](\A k \in SendsIn(cycleLog) :
          /\ k = 5
          /\ SubSeq(cycleLog, 2, 4) = <<"setModeIdle", "switchOn", "settle">>)

\* a send has just failed, the switch still on after its prepared hand-over
C17_Witness ==
  /\ pc = "wait"
  /\ cycleLog = <<"check", "setModeIdle", "switchOn", "settle", "sendFailed">>
  /\ switchPin = "HIGH"
  /\ radioMode = "Tx"

\* C18: once initializeLED has run, the LED is on exactly during the pulse
\* that follows a successful send; a failed send turns nothing on; and the LED
\* is off in every other state, all 12 power-down steps included.
C18_LedFollowsSuccess ==
  /\ [](pc \notin {"setup", "halted", "config"} =>
          /\ ledPin \in {"LOW", "HIGH"}
          /\ ledPin = "HIGH" <=> pc = "blink"
          /\ pc = "blink" => cycleLog[Len(cycleLog)] = "sendOk")
  /\ [][ /\ (pc = "send" /\ pc' # pc) =>
              (ledPin' = "HIGH" <=> cycleLog'[Len(cycleLog')] = "sendOk")
         /\ pc = "powerdown" => ledPin = "LOW" /\ ledPin' = "LOW" ]_vars

\* the LED is on in the pulse after the second successful send
C18_Witness ==
  /\ pc = "blink"
  /\ ledPin = "HIGH"
  /\ okSends = 2
  /\ totalPacketCount = 1


CrcOn(r) == (r[RegModemConfig2] \div CrcOnBit) % 2 = 1

\* C19: initializeRF95Module's writes leave bit 2 of register 0x1E set
\* whatever the register held, and from a state in which the bit is set no
\* call of setBandwidth or setSpreadingFactor, with an argument in or out of
\* range, leads to a state in which it is clear.
C19_CrcStaysOn ==
  /\ [](CrcOn(RegsAfterInit(regs)))
  /\ [][ CrcOn(regs) => CrcOn(regs') ]_vars

\* setSpreadingFactor(6) has rewritten a register that had the CRC bit set
\* (0xF7 before, 0x67 after)
C19_Witness ==
  /\ lastCall.op = "setSpreadingFactor" /\ lastCall.arg = 6
  /\ regs[RegModemConfig2] = 103
  /\ CrcOn(regs)


\* C20: whenever the sketch is in loop(), both setters have been applied with
\* in-range values: registers 0x1D and 0x1E carry bwCode in 0..9 and sf in
\* 6..12 in their high nibbles and the preamble registers hold 0x0008; nothing
\* of a transmit cycle has happened before that; and no step taken in loop()
\* changes any of the four registers or issues a configuration call.
C20_ConfigFixedBeforeLoop ==
  /\ [](pc \in LoopPcs =>
          /\ bwCode \in 0..9 /\ regs[RegModemConfig1] \div 16 = bwCode
          /\ sf \in 6..12 /\ regs[RegModemConfig2] \div 16 = sf
          /\ regs[RegPreambleMsb] = 0 /\ regs[RegPreambleLsb] = 8
          /\ lastCall.op = "setSpreadingFactor" /\ lastCall.arg = sf)
  /\ [](pc \notin LoopPcs =>
          cycleLog = << >> /\ okSends = 0 /\ totalPacketCount = 0)
  /\ [][ (pc \in LoopPcs) =>
           /\ pc' \in LoopPcs
           /\ regs' = regs
           /\ spiWrites' = spiWrites
           /\ lastCall' = lastCall
           /\ bwCode' = bwCode
           /\ sf' = sf ]_vars

\* two packets sent, and the registers still as setup() left them from a reset
\* value of 0xFB: bandwidth code 9 (0x9B), spreading factor 12 (0xCF),
\* preamble 0x0008
C20_Witness ==
  /\ pc = "check"
  /\ totalPacketCount = 2
  /\ regs[RegModemConfig1] = 155
  /\ regs[RegModemConfig2] = 207
  /\ regs[RegPreambleMsb] = 0 /\ regs[RegPreambleLsb] = 8

====
